---- MODULE Spec2Model ----
\* JPEG frame broadcaster: the accept thread, the client registry (a plain
\* Python set), the framed per-client write and the paced streaming loop of
\*   TCP   = Documentation~/JPEGTurboTCPServer.py (frame array, RunStreamingLoop)
\*   Clock = Documentation~/StreamClockJPEG.py    (clock image, JPEGStreamingLoop)
EXTENDS Integers, Sequences, FiniteSets, TLC

\* ------------------------------------------------------------------ bounds
MaxClients == 3      \* connections the accept loop may accept
MaxLen == 2          \* longest JPEG payload, in bytes
MaxFrames == 2       \* longest pre-loaded frame array
MaxIters == 2        \* iterations of the streaming loop that may start
MaxInterrupts == 1   \* KeyboardInterrupts that may be delivered
MaxPeers == 2        \* connections accepted in the life-cycle specification
MaxPacedIters == 100 \* iterations of the paced loop in the pacing specification
MaxPasses == 3       \* passes the caller of the methods may begin

\* ------------------------------------------------------- program constants
PrefixLen == 4       \* len(message).to_bytes(4, "little")
SafetyMarginMs == 5  \* (1.0 / fps) - 0.005
MsPerSecond == 1000  \* time is counted in whole milliseconds
WarmupIters == 100   \* for i in range(100): self.getEncodedJPEG()
DefaultMaxClients == 5  \* maxClients=5
ByteRange == 256     \* values of one byte of to_bytes(4, "little")

Sockets == 1..MaxClients
Variants == {"TCP", "Clock"}

\* A peer accepts `quota` more bytes and then fails; NoLimit is a healthy peer.
NoLimit == PrefixLen + MaxLen + 1
\* part of the prefix; all but the last byte of the longest message (a whole
\* shorter one); no limit
QuotaChoices == {2, PrefixLen + MaxLen - 1, NoLimit}
FpsChoices == {10}
ElapsedChoices == {0, 100, 150}
\* time the 100 warm-up frames took: none measured; 20000 frames per second;
\* exactly the rate asked for; half of it; less than one frame per second
WarmupTimeChoices == {0, 5, 10000, 20000, 200000}

VARIABLES
  variant,          \* which program runs
  preEncoded,       \* TCP: self._preEncoded
  frameCount,       \* TCP: self._frameCount
  currentFrame,     \* TCP: self._currentFrame
  fps,              \* self._fps
  frames,           \* TCP: self._frames as a set: {} is None, {n} an array of n
  sendNextFrame,    \* TCP: the method bound to self.sendNextFrame
  maxClients,       \* TCP: the constructor's maxClients
  runMAXFPSTest,    \* Clock: the constructor's runMAXFPSTest
  fpsArg,           \* the constructor's fps
  warmups,          \* FindMaxFrameRate: calls of getEncodedJPEG made
  maxFPS,           \* FindMaxFrameRate: maxFPS as a set ({}: not computed)
  clampLogged,      \* FindMaxFrameRate: "Setting FPS to ..." logged
  clients,          \* self._clients: the registry, entries identified by socket
  accepted,         \* every socket accept() has returned so far
  quota,            \* peer behaviour: bytes each socket still accepts
  pc,               \* position of the streaming thread
  selfLoopForever,  \* TCP: the attribute self.loopForever
  loopForever,      \* the local variable loopForever
  jpg,              \* the frame being broadcast
  removalSet,       \* local removalSet
  client,           \* local loop variable client, as a set ({}: unbound)
  siUsed,           \* set iterator: size of the set when iteration began
  unvisited,        \* set iterator: table entries not yet returned
  totalsent,        \* local totalsent of the framed write
  wire,             \* bytes written to each socket for the current frame
  ret,              \* value returned by the framed write, per client of this pass
  slept,            \* time.sleep argument of the last pacing step (0: none)
  overrunLogged,    \* "We took too long" logged by the last pacing step
  elapsed,          \* time measured by the last pacing step
  \* history
  iters,            \* iterations started
  sentIdx,          \* currentFrame when each pass began, in order
  passStart,        \* registry when the current pass began
  quotaStart,       \* quota when the current pass began
  passAdds,         \* sockets registered while the pass was running
  passEnd,          \* "none" | "running" | "done" | "aborted"
  passIntr,         \* an interrupt hit a framed write of this pass
  errors,           \* exception kinds raised in the streaming thread
  interrupts,       \* KeyboardInterrupts delivered
  startedAfterIntr, \* an iteration began after an interrupt was observed
  clock,            \* time since the loop started: work measured plus sleep
  work,             \* sum of the elapsed times the pacing steps measured
  got,              \* per socket: the passes whose framed write to it began
  regAt,            \* per socket: passes begun when it was registered
  acceptor,         \* the accept thread: "accepting" | "dead"
  call              \* the method the main thread called last, and its argument

vars == <<variant, preEncoded, frameCount, currentFrame, fps, clients, accepted,
          quota, pc, selfLoopForever, loopForever, jpg, removalSet, client,
          siUsed, unvisited, totalsent, wire, ret, slept, overrunLogged, elapsed,
          iters, sentIdx, passStart, quotaStart, passAdds, passEnd,
          passIntr, errors, interrupts, startedAfterIntr,
          frames, sendNextFrame, maxClients, runMAXFPSTest, fpsArg, warmups,
          maxFPS, clampLogged, clock, work, got, regAt, acceptor, call>>

\* what only construction sets
config == <<variant, preEncoded, frameCount, fps, frames, sendNextFrame,
            maxClients, runMAXFPSTest, fpsArg, warmups, maxFPS, clampLogged>>
timing == <<slept, overrunLogged, elapsed>>
passHist == <<passStart, quotaStart, passEnd>>
paceHist == <<clock, work>>
sendHist == <<got, regAt>>
\* what the steps of a pass and of the pacing leave alone
outer == <<acceptor, call>>

\* ------------------------------------------------------------ pure helpers
\* faulty ToBytes4LE: to_bytes(4, "big")
ToBytes4BE(n) ==
  <<(n \div 16777216) % 256, (n \div 65536) % 256, (n \div 256) % 256, n % 256>>

\* int.to_bytes(4, "little")
ToBytes4LE(n) ==
  <<n % 256, (n \div 256) % 256, (n \div 65536) % 256, (n \div 16777216) % 256>>

\* simplejpeg.encode_jpeg: opaque, deterministic, never empty. Image i is
\* rendered as 1 + (i mod MaxLen) bytes, all different.
encodeJPEG(image) == [k \in 1..(1 + (image % MaxLen)) |-> (image * MaxLen + k) % 256]

\* the bytes a complete framed write puts on the wire
Message(payload) == ToBytes4LE(Len(payload)) \o payload

\* faulty Chunk: message[:n], the slice forgets totalsent
ChunkFromStart(message, sent, n) == SubSeq(message, 1, n)

\* message[totalsent:] cut to the n bytes the socket took
Chunk(message, sent, n) == SubSeq(message, sent + 1, sent + n)

\* faulty ShouldEvict: <= for <
ShouldEvictOffByOne(r, message) == r <= Len(message)

\* _sendJPEGToClient(...) < len(jpg)
ShouldEvict(r, message) == r < Len(message)

\* (self._currentFrame + 1) % self._frameCount
NextFrameIndex(cur, n) == (cur + 1) % n

\* 1.0 / f in milliseconds, f # 0 (a negative rate gives a negative time)
Period(f) == IF f > 0 THEN MsPerSecond \div f ELSE 0 - (MsPerSecond \div (0 - f))

\* faulty maxTimePerFrame: the whole period, no margin
maxTimePerFrameNoMargin(f) == Period(f)

\* maxTimePerFrame = (1.0 / self._fps) - 0.005, in milliseconds
maxTimePerFrame(f) == Period(f) - SafetyMarginMs

\* bytes socket c takes from an n-byte write
Room(c, n) == IF quota[c] = NoLimit THEN n ELSE IF quota[c] < n THEN quota[c] ELSE n
Spend(c, n) == IF quota[c] = NoLimit THEN quota ELSE [quota EXCEPT ![c] = @ - n]

\* A write to a peer that never reads does not return: the sockets are
\* blocking and no timeout is set (quota above NoLimit marks such a peer).
Blocked == pc \in {"sendall", "send"} /\ \E c \in client : quota[c] > NoLimit

\* The code never calls close(): a socket object is closed when the last
\* reference to it goes away (registry, removalSet, the loop variable client).
Referenced == clients \cup removalSet \cup client
SocketOpen(c) == c \in accepted /\ c \in Referenced

\* the condition of the while statement
WhileCond == IF variant = "TCP" THEN selfLoopForever ELSE loopForever

InPass == pc \in {"iter", "sendall", "send", "remove"}

\* __init__ has not returned: no thread runs yet
Unbuilt == {"new", "warmup", "failed"}

\* self.sendNextFrame after __init__: _sendNextFrameEncoded, _sendNextFrameRaw
\* (the clock server has no such method: its loop inlines the pass)
Bound(v, pre) == IF v = "Clock" THEN "inline" ELSE IF pre THEN "Encoded" ELSE "Raw"

\* the two methods that send a frame of the caller's
PushCalls == {"sendJPEGToAllClients", "encodeAndSendJPEGToAllClients"}

\* passes that have ended
PassesOver == Len(sentIdx) - (IF passEnd = "running" THEN 1 ELSE 0)

\* ------------------------------------------------------------------- Init
\* nothing has run yet: the registry is empty, no loop, no pass, no history
Blank ==
  /\ currentFrame = 0
  /\ clients = {} /\ accepted = {}
  /\ quota = [c \in Sockets |-> NoLimit]
  /\ selfLoopForever = FALSE /\ loopForever = FALSE
  /\ jpg = <<>> /\ removalSet = {} /\ client = {}
  /\ siUsed = 0 /\ unvisited = {} /\ totalsent = 0
  /\ wire = [c \in Sockets |-> <<>>]
  /\ ret = <<>>
  /\ slept = 0 /\ overrunLogged = FALSE /\ elapsed = 0
  /\ iters = 0 /\ sentIdx = <<>>
  /\ passStart = {} /\ quotaStart = quota /\ passAdds = {} /\ passEnd = "none"
  /\ passIntr = FALSE
  /\ errors = {} /\ interrupts = 0 /\ startedAfterIntr = FALSE
  /\ clock = 0 /\ work = 0
  /\ got = [c \in Sockets |-> <<>>] /\ regAt = [c \in Sockets |-> 0]
  /\ acceptor = "accepting" /\ call = <<"none", 0>>

\* a constructed server that streams at FpsChoices: a frame array of 1 to
\* MaxFrames frames, or the clock image with runMAXFPSTest=False
Init ==
  /\ variant \in Variants
  /\ preEncoded \in (IF variant = "TCP" THEN BOOLEAN ELSE {FALSE})
  /\ frameCount \in (IF variant = "TCP" THEN 1..MaxFrames ELSE {0})
  /\ fps \in FpsChoices
  /\ frames = (IF variant = "TCP" /\ ~preEncoded THEN {frameCount} ELSE {})
  /\ sendNextFrame = Bound(variant, preEncoded)
  /\ maxClients = DefaultMaxClients
  /\ runMAXFPSTest = FALSE /\ fpsArg = fps
  /\ warmups = 0 /\ maxFPS = {} /\ clampLogged = FALSE
  /\ pc = "idle"
  /\ Blank

\* ------------------------------------------------------- the accept thread
\* _wait_for_clients_loop / serve_forever: accept(), log, self._clients.add
Accept(s, q) ==
  /\ pc \notin Unbuilt
  /\ acceptor = "accepting"
  /\ s \in Sockets \ accepted
  /\ accepted' = accepted \cup {s}
  /\ clients' = clients \cup {s}
  /\ quota' = [quota EXCEPT ![s] = q]
  /\ passAdds' = IF InPass THEN passAdds \cup {s} ELSE passAdds
  /\ regAt' = [regAt EXCEPT ![s] = PassesOver]
  /\ UNCHANGED <<config, outer, paceHist, got,
                 currentFrame, pc, selfLoopForever, loopForever, jpg,
                 removalSet, client, siUsed, unvisited, totalsent, wire, ret,
                 timing, iters, sentIdx, passHist, passIntr, errors,
                 interrupts, startedAfterIntr>>

\* accept() raises for one connection attempt (the peer gave up before its
\* connection was taken, no descriptor is left): `while True` has no try
\* statement in it, so the exception leaves the thread's function and the
\* thread ends; nothing calls accept() after that
AcceptFail ==
  /\ pc \notin Unbuilt
  /\ acceptor = "accepting"
  /\ acceptor' = "dead"
  /\ UNCHANGED <<config, call, paceHist, sendHist,
                 currentFrame, clients, accepted, quota, pc, selfLoopForever,
                 loopForever, jpg, removalSet, client, siUsed, unvisited,
                 totalsent, wire, ret, timing, iters, sentIdx, passHist,
                 passAdds, passIntr, errors, interrupts, startedAfterIntr>>

\* ------------------------------------------------------------ construction
\* everything the constructors leave alone
built == <<currentFrame, clients, accepted, quota, selfLoopForever, loopForever,
           jpg, removalSet, client, siUsed, unvisited, totalsent, wire, ret,
           timing, iters, sentIdx, passHist, passAdds, passIntr, errors,
           interrupts, startedAfterIntr, paceHist, sendHist, outer>>

\* JPEGTurboTCPServer.__init__ from "did the user provide any frames?" on:
\* any array, empty or not, sets _frameCount = len and binds sendNextFrame;
\* pre-encoding drops the raw frames. No statement looks at the length.
\* (Read without the statements of lines 112 and 122, which raise for every
\* argument - a format with one value too few, a name bound nowhere - as
\* line 229 is read with its indentation: with them no server of this
\* class would exist at all.)
ConstructTCP ==
  /\ pc = "new" /\ variant = "TCP"
  /\ IF frames = {}
       THEN UNCHANGED <<frameCount, sendNextFrame, frames>>
       ELSE \E n \in frames :
              /\ frameCount' = n
              /\ sendNextFrame' = Bound(variant, preEncoded)
              /\ frames' = IF preEncoded THEN {} ELSE frames
  /\ pc' = "idle"
  /\ UNCHANGED <<variant, preEncoded, fps, maxClients, runMAXFPSTest, fpsArg,
                 warmups, maxFPS, clampLogged, built>>

\* StreamClockJPEG.__init__: if runMAXFPSTest: self.FindMaxFrameRate()
ConstructClock ==
  /\ pc = "new" /\ variant = "Clock"
  /\ pc' = IF runMAXFPSTest THEN "warmup" ELSE "idle"
  /\ UNCHANGED <<config, built>>

\* FindMaxFrameRate: one turn of `for i in range(100): self.getEncodedJPEG()`
WarmUp ==
  /\ pc = "warmup" /\ warmups < WarmupIters
  /\ warmups' = warmups + 1
  /\ UNCHANGED <<variant, preEncoded, frameCount, fps, frames, sendNextFrame,
                 maxClients, runMAXFPSTest, fpsArg, maxFPS, clampLogged,
                 pc, built>>

\* math.floor(1.0 / ((time.time() - startTime) / 100.0)), t in milliseconds
MaxFPSOf(t) == (WarmupIters * MsPerSecond) \div t

\* faulty ShouldClamp: >= for >
ShouldClampAtCeiling(f, m) == f >= m

\* if self._fps > maxFPS:
ShouldClamp(f, m) == f > m

\* FindMaxFrameRate after the loop: the time the 100 frames took gives
\* maxFPS (no time at all: ZeroDivisionError leaves __init__); a configured
\* rate above maxFPS is logged and replaced by it
Clamp ==
  /\ pc = "warmup" /\ warmups = WarmupIters
  /\ \E t \in WarmupTimeChoices :
       IF t = 0
         THEN /\ pc' = "failed"
              /\ UNCHANGED <<fps, maxFPS, clampLogged>>
         ELSE /\ maxFPS' = {MaxFPSOf(t)}
              /\ IF ShouldClamp(fps, MaxFPSOf(t))
                   THEN fps' = MaxFPSOf(t) /\ clampLogged' = TRUE
                   ELSE UNCHANGED <<fps, clampLogged>>
              /\ pc' = "idle"
  /\ UNCHANGED <<variant, preEncoded, frameCount, frames, sendNextFrame,
                 maxClients, runMAXFPSTest, fpsArg, warmups, built>>

\* the encoder raises while __init__ pre-encodes the frames, or while
\* FindMaxFrameRate renders one: the exception leaves __init__
ConstructFail ==
  /\ \/ pc = "new" /\ variant = "TCP" /\ preEncoded /\ \E n \in frames : n >= 1
     \/ pc = "warmup" /\ warmups < WarmupIters
  /\ pc' = "failed"
  /\ UNCHANGED <<config, built>>

\* ---------------------------------------------------- the streaming thread
\* the except clauses around one iteration
Caught(kind) ==
  /\ errors' = errors \cup {kind}
  /\ UNCHANGED selfLoopForever
  /\ IF call[1] # "loop"
       THEN \* sendNextFrame or a push called from outside the loop: no try
            \* statement of the server is around it, the exception goes to
            \* the caller
            /\ UNCHANGED loopForever
            /\ pc' = "idle"
       ELSE IF variant = "TCP"
         THEN \* both handlers assign a local named loopForever
              /\ loopForever' = FALSE
              /\ pc' = "top"
         ELSE IF kind = "KeyboardInterrupt"
           THEN /\ loopForever' = FALSE
                /\ pc' = "top"
           ELSE \* the general handler is commented out: the exception
                \* leaves JPEGStreamingLoop
                /\ UNCHANGED loopForever
                /\ pc' = "crashed"

\* An exception that leaves sendJPEGToAllClients drops its locals; the pass
\* of JPEGStreamingLoop is inlined and its locals stay bound.
AbortPass ==
  /\ removalSet' = IF variant = "TCP" THEN {} ELSE removalSet
  /\ client' = IF variant = "TCP" THEN {} ELSE client
  /\ passEnd' = IF InPass THEN "aborted" ELSE passEnd

\* self.loopForever = True / loopForever = True; then maxTimePerFrame =
\* (1.0 / self._fps) - 0.005: with _fps = 0 the division raises
\* ZeroDivisionError, outside any try statement, and leaves the loop method
EnterLoop ==
  /\ call' = <<"loop", 0>>
  /\ IF variant = "TCP"
       THEN selfLoopForever' = TRUE /\ UNCHANGED loopForever
       ELSE loopForever' = TRUE /\ UNCHANGED selfLoopForever
  /\ IF fps = 0
       THEN /\ errors' = errors \cup {"ZeroDivisionError"}
            /\ pc' = "crashed"
       ELSE /\ pc' = "top"
            /\ UNCHANGED errors
  /\ UNCHANGED <<config, acceptor, paceHist, sendHist,
                 currentFrame, clients, accepted, quota, jpg,
                 siUsed, unvisited, totalsent, wire, ret, timing, iters,
                 sentIdx, passHist, passAdds, passIntr,
                 interrupts, startedAfterIntr>>

\* RunStreamingLoop() / JPEGStreamingLoop() is called on the constructed server
StartLoop ==
  /\ pc = "idle"
  /\ EnterLoop
  /\ UNCHANGED <<removalSet, client>>

\* ... and called again on the same object after it has returned, or after
\* an exception has left it: neither method looks at what went before, each
\* sets its flag to True and enters its while statement (with new locals)
LoopAgain ==
  /\ pc \in {"stopped", "crashed"}
  /\ EnterLoop
  /\ removalSet' = {} /\ client' = {}

\* while self.loopForever: / while loopForever:   then startTime = time.time()
\* (the model follows the loop for `most` iterations)
LoopTestUpTo(most) ==
  /\ pc = "top"
  /\ IF WhileCond
       THEN /\ iters < most
            /\ iters' = iters + 1
            /\ startedAfterIntr' = (startedAfterIntr \/ interrupts > 0)
            /\ slept' = 0 /\ overrunLogged' = FALSE /\ elapsed' = 0
            /\ pc' = "produce"
       ELSE /\ pc' = "stopped"
            /\ UNCHANGED <<iters, startedAfterIntr, timing>>
  /\ UNCHANGED <<config, outer, paceHist, sendHist,
                 currentFrame, clients, accepted, quota, selfLoopForever,
                 loopForever, jpg, removalSet, client, siUsed, unvisited,
                 totalsent, wire, ret, sentIdx, passHist,
                 passAdds, passIntr, errors, interrupts>>

LoopTest == LoopTestUpTo(MaxIters)

\* the frame of this iteration: self._encodedFrames[cur], encodeJPEG of
\* self._frames[cur], or getEncodedJPEG() of the clock image
FrameChoices ==
  IF variant = "TCP" THEN {encodeJPEG(currentFrame)}
  ELSE {encodeJPEG(i) : i \in 0..(MaxFrames - 1)}

\* faulty Rest: the iterator does not move past the entry it returned
RestKeepsEntry(entries, c) == entries

\* the set iterator moves past the entry it returns
Rest(entries, c) == entries \ {c}

\* sendNextFrame has a frame to send: it is bound to one of the two array
\* methods and the array is not empty, or this is the clock server
HasFrame == sendNextFrame # "stub" /\ (variant = "TCP" => frameCount > 0)

\* a pass up to its first write, of the frame buf: removalSet = set(),
\* `for client in self._clients` creates the set iterator and takes its
\* first entry (no call separates iter() from the first next())
BeginPass(buf) ==
  /\ jpg' = buf
  /\ sentIdx' = Append(sentIdx, currentFrame)
  /\ removalSet' = {}
  /\ siUsed' = Cardinality(clients)
  /\ IF clients = {}
       THEN /\ pc' = "remove"
            /\ UNCHANGED <<client, unvisited, totalsent>>
       ELSE /\ \E c \in clients :
                 /\ client' = {c}
                 /\ unvisited' = Rest(clients, c)
            /\ totalsent' = 0
            /\ pc' = "sendall"
  /\ wire' = [c \in Sockets |-> <<>>]
  /\ ret' = <<>>
  /\ passStart' = clients /\ quotaStart' = quota /\ passEnd' = "running"
  /\ passAdds' = {} /\ passIntr' = FALSE
  /\ UNCHANGED <<config, acceptor, paceHist, sendHist,
                 currentFrame, clients, accepted, quota, selfLoopForever,
                 loopForever, timing, iters, errors, interrupts,
                 startedAfterIntr>>

\* sendNextFrame up to the first write: the frame is produced and its pass
\* begins
Produce ==
  /\ pc = "produce"
  /\ HasFrame
  /\ \E buf \in FrameChoices : BeginPass(buf)
  /\ UNCHANGED call

\* encodeJPEG / getEncodedJPEG raises
ProduceFail ==
  /\ pc = "produce"
  /\ HasFrame
  /\ ~preEncoded
  /\ Caught("Exception")
  /\ UNCHANGED <<config, outer, paceHist, sendHist,
                 currentFrame, clients, accepted, quota, jpg, removalSet,
                 client, siUsed, unvisited, totalsent, wire, ret, timing, iters,
                 sentIdx, passHist, passAdds, passIntr, interrupts,
                 startedAfterIntr>>

\* self._frames[self._currentFrame] / self._encodedFrames[self._currentFrame]
\* of an empty array: IndexError, taken by `except Exception`
ProduceIndexError ==
  /\ pc = "produce"
  /\ variant = "TCP" /\ sendNextFrame # "stub" /\ frameCount = 0
  /\ Caught("Exception")
  /\ UNCHANGED <<config, outer, paceHist, sendHist,
                 currentFrame, clients, accepted, quota, jpg, removalSet,
                 client, siUsed, unvisited, totalsent, wire, ret, timing, iters,
                 sentIdx, passHist, passAdds, passIntr, interrupts,
                 startedAfterIntr>>

\* no frame array was given: sendNextFrame is the method of the class body,
\* `pass`; the iteration goes on to its pacing step
ProduceNothing ==
  /\ pc = "produce"
  /\ sendNextFrame = "stub"
  /\ pc' = "pace"
  /\ UNCHANGED <<config, outer, paceHist, sendHist,
                 currentFrame, clients, accepted, quota, selfLoopForever,
                 loopForever, jpg, removalSet, client, siUsed, unvisited,
                 totalsent, wire, ret, timing, iters, sentIdx, passHist,
                 passAdds, passIntr, errors, interrupts, startedAfterIntr>>

\* _sendJPEGToClient returns r for socket c: the caller compares it with
\* len(jpg) and marks the client
Return(c, r) ==
  /\ ret' = [x \in (DOMAIN ret) \cup {c} |-> IF x = c THEN r ELSE ret[x]]
  /\ removalSet' = IF ShouldEvict(r, jpg) THEN removalSet \cup {c} ELSE removalSet
  /\ pc' = "iter"

\* next() of the set iterator: "Set changed size during iteration" when the
\* set's size differs from the size at iter(); else the next table entry, in
\* table order (any order), or the end of the loop
IterNext ==
  /\ pc = "iter"
  /\ IF Cardinality(clients) # siUsed
       THEN /\ Caught("RuntimeError")
            /\ AbortPass
            /\ UNCHANGED <<unvisited, totalsent, wire, passStart, quotaStart>>
       ELSE IF unvisited = {}
         THEN /\ pc' = "remove"
              /\ UNCHANGED <<unvisited, totalsent, wire, passHist, removalSet,
                             client, errors, selfLoopForever, loopForever>>
         ELSE /\ \E c \in unvisited :
                   /\ client' = {c}
                   /\ unvisited' = Rest(unvisited, c)
              /\ totalsent' = 0
              /\ pc' = "sendall"
              /\ UNCHANGED <<wire, passHist, removalSet, errors,
                             selfLoopForever, loopForever>>
  /\ UNCHANGED <<config, outer, paceHist, sendHist,
                 currentFrame, clients, accepted, quota, jpg, siUsed,
                 ret, timing, iters, sentIdx, passAdds, passIntr,
                 interrupts, startedAfterIntr>>

\* socket.sendall(len(message).to_bytes(4, "little")): all four bytes, or the
\* bytes the peer still takes and then an exception, caught: return 0.
\* With the prefix out, an empty message returns len(message) at once.
SendPrefix ==
  /\ pc = "sendall"
  /\ ~Blocked
  /\ \E c \in client :
       LET n == Room(c, PrefixLen)
           prefix == ToBytes4LE(Len(jpg))
       IN /\ wire' = [wire EXCEPT ![c] = @ \o SubSeq(prefix, 1, n)]
          /\ got' = [got EXCEPT ![c] = Append(@, Len(sentIdx))]
          /\ quota' = Spend(c, n)
          /\ IF n < PrefixLen THEN Return(c, 0)
             ELSE IF Len(jpg) = 0 THEN Return(c, Len(jpg))
             ELSE /\ pc' = "send"
                  /\ UNCHANGED <<ret, removalSet>>
  /\ UNCHANGED <<config, outer, paceHist, regAt,
                 currentFrame, clients, accepted, selfLoopForever,
                 loopForever, jpg, client, siUsed, unvisited, totalsent, timing,
                 iters, sentIdx, passHist, passAdds, passIntr, errors,
                 interrupts, startedAfterIntr>>

\* sent = socket.send(message[totalsent:]): the socket takes n >= 1 bytes, or
\* it is broken: send returns 0 (return totalsent) or raises (return 0)
SendChunk ==
  /\ pc = "send"
  /\ ~Blocked
  /\ \E c \in client :
       LET left == Len(jpg) - totalsent
           room == Room(c, left)
       IN IF room = 0
            THEN /\ \E r \in {totalsent, 0} : Return(c, r)
                 /\ UNCHANGED <<wire, quota, totalsent>>
            ELSE \E n \in 1..room :
                   /\ wire' = [wire EXCEPT ![c] = @ \o Chunk(jpg, totalsent, n)]
                   /\ quota' = Spend(c, n)
                   /\ totalsent' = totalsent + n
                   /\ IF totalsent + n < Len(jpg)
                        THEN /\ pc' = "send"
                             /\ UNCHANGED <<ret, removalSet>>
                        ELSE Return(c, Len(jpg))
  /\ UNCHANGED <<config, outer, paceHist, sendHist,
                 currentFrame, clients, accepted, selfLoopForever,
                 loopForever, jpg, client, siUsed, unvisited, timing, iters,
                 sentIdx, passHist, passAdds, passIntr, errors,
                 interrupts, startedAfterIntr>>

\* for client in removalSet: self._clients.remove(client), log; then, in TCP,
\* sendJPEGToAllClients returns and sendNextFrame, when it made the call,
\* advances the index; the loop goes on to pace, any other caller has its
\* call back
RemoveFailed ==
  /\ pc = "remove"
  /\ clients' = clients \ removalSet
  /\ IF variant = "TCP"
       THEN /\ removalSet' = {} /\ client' = {}
            /\ currentFrame' = IF call[1] \in PushCalls THEN currentFrame
                               ELSE NextFrameIndex(currentFrame, frameCount)
       ELSE /\ IF removalSet = {} THEN UNCHANGED client
               ELSE \E c \in removalSet : client' = {c}
            /\ UNCHANGED <<removalSet, currentFrame>>
  /\ passEnd' = "done"
  /\ pc' = IF call[1] = "loop" THEN "pace" ELSE "idle"
  /\ UNCHANGED <<config, outer, paceHist, sendHist,
                 accepted, quota, selfLoopForever, loopForever, jpg,
                 siUsed, unvisited, totalsent, wire, ret, timing, iters,
                 sentIdx, passStart, quotaStart, passAdds, passIntr, errors,
                 interrupts, startedAfterIntr>>

\* faulty SleepTime: the 5 ms margin is forgotten
SleepTimeNoMargin(f, e) == Period(f) - e

\* remaingSleepTime = maxTimePerFrame - (time.time() - startTime)
SleepTime(f, e) == maxTimePerFrame(f) - e

\* if remaingSleepTime > 0: time.sleep(...) else: log "We took too long"
\* (the time measured is one of `costs`)
PaceWith(costs) ==
  /\ pc = "pace"
  /\ \E e \in costs :
       /\ elapsed' = e
       /\ work' = work + e
       /\ clock' = clock + e
       /\ IF SleepTime(fps, e) > 0
            THEN /\ slept' = SleepTime(fps, e)
                 /\ overrunLogged' = FALSE
                 /\ pc' = "sleep"
            ELSE /\ slept' = 0
                 /\ overrunLogged' = TRUE
                 /\ pc' = "top"
  /\ UNCHANGED <<config, outer, sendHist,
                 currentFrame, clients, accepted, quota, selfLoopForever,
                 loopForever, jpg, removalSet, client, siUsed, unvisited,
                 totalsent, wire, ret, iters, sentIdx, passHist, passAdds,
                 passIntr, errors, interrupts, startedAfterIntr>>

Pace == PaceWith(ElapsedChoices)

\* time.sleep returns
WakeUp ==
  /\ pc = "sleep"
  /\ pc' = "top"
  /\ clock' = clock + slept
  /\ UNCHANGED <<config, outer, work, sendHist,
                 currentFrame, clients, accepted, quota, selfLoopForever,
                 loopForever, jpg, removalSet, client, siUsed, unvisited,
                 totalsent, wire, ret, timing, iters, sentIdx, passHist,
                 passAdds, passIntr, errors, interrupts, startedAfterIntr>>

\* CTRL+C: KeyboardInterrupt is raised in the streaming thread where it is.
\* Inside _sendJPEGToClient the bare except takes it: return 0.
InterruptInWrite ==
  /\ pc \in {"sendall", "send"}
  /\ interrupts < MaxInterrupts
  /\ interrupts' = interrupts + 1
  /\ passIntr' = TRUE
  /\ \E c \in client : Return(c, 0)
  /\ UNCHANGED <<config, outer, paceHist, sendHist,
                 currentFrame, clients, accepted, quota, selfLoopForever,
                 loopForever, jpg, client, siUsed, unvisited, totalsent, wire,
                 timing, iters, sentIdx, passHist, passAdds, errors,
                 startedAfterIntr>>

\* Anywhere else inside the try statement the loop's handler takes it.
InterruptInTry ==
  /\ pc \in {"produce", "iter", "remove", "pace", "sleep"}
  /\ interrupts < MaxInterrupts
  /\ interrupts' = interrupts + 1
  /\ Caught("KeyboardInterrupt")
  /\ AbortPass
  /\ UNCHANGED <<config, outer, paceHist, sendHist,
                 currentFrame, clients, accepted, quota, jpg, siUsed,
                 unvisited, totalsent, wire, ret, timing, iters, sentIdx,
                 passStart, quotaStart, passAdds, passIntr, startedAfterIntr>>

\* At the while test, outside the try statement, it leaves the loop method.
InterruptAtTest ==
  /\ pc = "top"
  /\ interrupts < MaxInterrupts
  /\ interrupts' = interrupts + 1
  /\ errors' = errors \cup {"KeyboardInterrupt"}
  /\ pc' = "crashed"
  /\ UNCHANGED <<config, outer, paceHist, sendHist,
                 currentFrame, clients, accepted, quota, selfLoopForever,
                 loopForever, jpg, removalSet, client, siUsed, unvisited,
                 totalsent, wire, ret, timing, iters, sentIdx, passHist,
                 passAdds, passIntr, startedAfterIntr>>

Next ==
  \/ \E q \in QuotaChoices : Accept(Cardinality(accepted) + 1, q)
  \/ StartLoop
  \/ LoopTest
  \/ Produce
  \/ ProduceFail
  \/ IterNext
  \/ SendPrefix
  \/ SendChunk
  \/ RemoveFailed
  \/ Pace
  \/ WakeUp
  \/ InterruptInWrite
  \/ InterruptInTry
  \/ InterruptAtTest

Spec == Init /\ [][Next]_vars

\* ------------------------------------------------- the whole life of a server
\* a peer that never reads: once connected, a write to it blocks for ever
Stalled == NoLimit + 1
LifeQuotaChoices == {2, NoLimit, Stalled}
\* --fps is any integer
LifeFpsChoices == {0 - 1, 0, 10}

\* the constructor has been called with its arguments and has stored them
LifeInit ==
  /\ variant \in Variants
  /\ preEncoded \in (IF variant = "TCP" THEN BOOLEAN ELSE {FALSE})
  /\ frames \in (IF variant = "TCP"
                   THEN {{}} \cup {{n} : n \in 0..MaxFrames} ELSE {{}})
  /\ frameCount = 0
  /\ sendNextFrame = (IF variant = "TCP" THEN "stub" ELSE "inline")
  /\ fpsArg \in LifeFpsChoices /\ fps = fpsArg
  /\ maxClients \in (IF variant = "TCP" THEN {1, DefaultMaxClients}
                       ELSE {DefaultMaxClients})
  /\ runMAXFPSTest \in (IF variant = "Clock" THEN BOOLEAN ELSE {FALSE})
  /\ warmups = 0 /\ maxFPS = {} /\ clampLogged = FALSE
  /\ pc = "new"
  /\ Blank

LifeNext ==
  \/ ConstructTCP
  \/ ConstructClock
  \/ WarmUp
  \/ Clamp
  \/ ConstructFail
  \/ \E q \in LifeQuotaChoices :
       Cardinality(accepted) < MaxPeers /\ Accept(Cardinality(accepted) + 1, q)
  \/ StartLoop
  \/ LoopTest
  \/ Produce
  \/ ProduceFail
  \/ ProduceIndexError
  \/ ProduceNothing
  \/ IterNext
  \/ SendPrefix
  \/ SendChunk
  \/ RemoveFailed
  \/ Pace
  \/ WakeUp

LifeSpec == LifeInit /\ [][LifeNext]_vars

\* ------------------------------------------------- the paced loop at length
\* an iteration costs nothing measurable, or more than the frame's time
PacedCosts == {0, 150}

\* a constructed server with no client, its loop followed MaxPacedIters times
PacedNext ==
  \/ StartLoop
  \/ LoopTestUpTo(MaxPacedIters)
  \/ Produce
  \/ RemoveFailed
  \/ PaceWith(PacedCosts)
  \/ WakeUp

PacedSpec == Init /\ [][PacedNext]_vars

\* ------------------------------------------- the loop method called again
\* a constructed server, its loop, CTRL+C, an accept() that raises, and the
\* caller free to call the loop method once more whenever it is over
AgainNext ==
  \/ \E q \in QuotaChoices :
       Cardinality(accepted) < MaxPeers /\ Accept(Cardinality(accepted) + 1, q)
  \/ AcceptFail
  \/ StartLoop
  \/ LoopAgain
  \/ LoopTest
  \/ Produce
  \/ ProduceFail
  \/ IterNext
  \/ SendPrefix
  \/ SendChunk
  \/ RemoveFailed
  \/ Pace
  \/ WakeUp
  \/ InterruptInWrite
  \/ InterruptInTry
  \/ InterruptAtTest

AgainSpec == Init /\ [][AgainNext]_vars

\* message buffers: n bytes counting up from seed
Buffer(n, seed) == [k \in 1..n |-> (seed + k) % ByteRange]

\* ------------------------------------- the methods called from a script
\* arguments of setCurrentFrame: below, in and above the range of any array
SeekChoices == (0 - 1)..(MaxFrames + 1)

\* faulty SeekOk: <= for <
SeekOkInclusive(x, n) == x >= 0 /\ x <= n

\* if (frameNumber >= 0 and frameNumber < self._frameCount):
SeekOk(x, n) == x >= 0 /\ x < n

\* setCurrentFrame(x)
SetCurrentFrame(x) ==
  /\ pc = "idle"
  /\ call' = <<"setCurrentFrame", x>>
  /\ currentFrame' = IF SeekOk(x, frameCount) THEN x ELSE currentFrame
  /\ UNCHANGED <<config, acceptor, paceHist, sendHist,
                 clients, accepted, quota, pc, selfLoopForever, loopForever,
                 jpg, removalSet, client, siUsed, unvisited, totalsent, wire,
                 ret, timing, iters, sentIdx, passHist, passAdds, passIntr,
                 errors, interrupts, startedAfterIntr>>

\* the script calls sendNextFrame(): the bound method starts
CallSendNextFrame ==
  /\ pc = "idle"
  /\ Len(sentIdx) < MaxPasses
  /\ call' = <<"sendNextFrame", 0>>
  /\ pc' = "produce"
  /\ UNCHANGED <<config, acceptor, paceHist, sendHist,
                 currentFrame, clients, accepted, quota, selfLoopForever,
                 loopForever, jpg, removalSet, client, siUsed, unvisited,
                 totalsent, wire, ret, timing, iters, sentIdx, passHist,
                 passAdds, passIntr, errors, interrupts, startedAfterIntr>>

\* buffers a script may push: any bytes object, the empty one included
PushChoices == {Buffer(n, 0) : n \in 0..MaxLen}

\* sendJPEGToAllClients(jpg) with a buffer of the script's
PushJPEG(buf) ==
  /\ pc = "idle"
  /\ Len(sentIdx) < MaxPasses
  /\ call' = <<"sendJPEGToAllClients", 0>>
  /\ BeginPass(buf)

\* encodeAndSendJPEGToAllClients(rawFrame): jpg = self.encodeJPEG(rawFrame),
\* then self.sendJPEGToAllClients(jpg)
PushRaw(image) ==
  /\ pc = "idle"
  /\ Len(sentIdx) < MaxPasses
  /\ call' = <<"encodeAndSendJPEGToAllClients", 0>>
  /\ BeginPass(encodeJPEG(image))

\* ... or the encoder raises: the exception goes to the script
PushRawFail ==
  /\ pc = "idle"
  /\ call' = <<"encodeAndSendJPEGToAllClients", 0>>
  /\ errors' = errors \cup {"Exception"}
  /\ UNCHANGED <<config, acceptor, paceHist, sendHist,
                 currentFrame, clients, accepted, quota, pc, selfLoopForever,
                 loopForever, jpg, removalSet, client, siUsed, unvisited,
                 totalsent, wire, ret, timing, iters, sentIdx, passHist,
                 passAdds, passIntr, interrupts, startedAfterIntr>>

\* a frame-array server, constructed and listening, whose methods a script
\* calls one after the other in any order; the loop is not started
ApiInit == Init /\ variant = "TCP"

ApiNext ==
  \/ \E q \in QuotaChoices :
       Cardinality(accepted) < MaxPeers /\ Accept(Cardinality(accepted) + 1, q)
  \/ \E x \in SeekChoices : SetCurrentFrame(x)
  \/ CallSendNextFrame
  \/ Produce
  \/ ProduceFail
  \/ \E buf \in PushChoices : PushJPEG(buf)
  \/ \E image \in 0..(MaxFrames - 1) : PushRaw(image)
  \/ PushRawFail
  \/ IterNext
  \/ SendPrefix
  \/ SendChunk
  \/ RemoveFailed

ApiSpec == ApiInit /\ [][ApiNext]_vars

\* ------------------------------------------------ the framed write alone
\* short ones, the empty one, and lengths about the second byte of the prefix
BufferLens == (0..MaxLen) \cup {ByteRange - 1, ByteRange, ByteRange + 1}
Buffers == {Buffer(n, seed) : n \in BufferLens, seed \in {0, 100, ByteRange - 1}}

\* sendJPEGToAllClients(jpg) / sendMessageToClient has just called the framed
\* write with a message of the caller's, for the one registered client, whose
\* peer takes every byte
CodecInit ==
  /\ variant \in Variants
  /\ preEncoded = FALSE /\ frameCount = 0 /\ frames = {}
  /\ sendNextFrame = (IF variant = "TCP" THEN "stub" ELSE "inline")
  /\ fps \in FpsChoices /\ fpsArg = fps
  /\ maxClients = DefaultMaxClients
  /\ runMAXFPSTest = FALSE
  /\ warmups = 0 /\ maxFPS = {} /\ clampLogged = FALSE
  /\ currentFrame = 0
  /\ clients = {1} /\ accepted = {1}
  /\ quota = [c \in Sockets |-> NoLimit]
  /\ selfLoopForever = FALSE /\ loopForever = FALSE
  /\ jpg \in Buffers
  /\ removalSet = {} /\ client = {1}
  /\ siUsed = 1 /\ unvisited = {} /\ totalsent = 0
  /\ wire = [c \in Sockets |-> <<>>]
  /\ ret = <<>>
  /\ slept = 0 /\ overrunLogged = FALSE /\ elapsed = 0
  /\ iters = 0 /\ sentIdx = <<>>
  /\ passStart = {1} /\ quotaStart = quota /\ passAdds = {} /\ passEnd = "running"
  /\ passIntr = FALSE
  /\ errors = {} /\ interrupts = 0 /\ startedAfterIntr = FALSE
  /\ clock = 0 /\ work = 0
  /\ got = [c \in Sockets |-> <<>>] /\ regAt = [c \in Sockets |-> 0]
  /\ acceptor = "accepting"
  /\ call = (IF variant = "TCP" THEN <<"sendJPEGToAllClients", 0>>
              ELSE <<"loop", 0>>)
  /\ pc = "sendall"

CodecNext ==
  \/ SendPrefix
  \/ SendChunk

CodecSpec == CodecInit /\ [][CodecNext]_vars

\* ================================================================= claims
IsPrefix(a, b) == Len(a) <= Len(b) /\ a = SubSeq(b, 1, Len(a))

\* a peer with quota q takes a whole message of n payload bytes
Accepts(q, n) == q = NoLimit \/ q >= PrefixLen + n

\* the framed write to c has returned short in the current pass
Failed(c) == c \in DOMAIN ret /\ ret[c] < Len(jpg)

\* only the registry race has raised so far: no encoder failure, no CTRL+C
\* taken by the loop's handlers
OnlyRace == errors \subseteq {"RuntimeError"}

\* ---- C1 (as stated): under every interleaving of accepts with broadcast
\* passes no step raises a concurrent-modification error, and the registry
\* holds at most one entry per accepted socket.
C1_RegistryConcurrency ==
  /\ "RuntimeError" \notin errors
  /\ clients \subseteq accepted

\* ---- C2: a broadcast pass that ran to its end with no accept and no
\* interrupt in between, of a frame of length L >= 1, has written the whole
\* message to every client of the pass whose peer takes L payload bytes and
\* left it registered, and has removed exactly the other clients of the pass.
C2_Isolation ==
  (passEnd = "done" /\ passAdds = {} /\ ~passIntr /\ Len(jpg) >= 1) =>
    \A c \in passStart :
      IF Accepts(quotaStart[c], Len(jpg))
        THEN c \in clients /\ wire[c] = Message(jpg) /\ ret[c] = Len(jpg)
        ELSE c \notin clients /\ wire[c] # Message(jpg)

C2_Witness ==
  /\ passEnd = "done" /\ passAdds = {} /\ ~passIntr
  /\ \E c, d \in passStart :
       /\ Accepts(quotaStart[c], Len(jpg)) /\ c \in clients
       /\ ~Accepts(quotaStart[d], Len(jpg)) /\ d \notin clients

\* ---- C3 (as stated): once the framed write to a client has returned, the
\* bytes written to it for the frame are the complete message or nothing.
C3_NoPartialFrame ==
  \A c \in DOMAIN ret : wire[c] = <<>> \/ wire[c] = Message(jpg)

\* ---- C3 (amended): the bytes written to a client for a frame are always a
\* leading part of the complete message, in order; and a framed write of a
\* frame of length >= 1 that returns len(frame) has written all of it.
C3_LeadingPart ==
  \A c \in Sockets :
    /\ IsPrefix(wire[c], Message(jpg))
    /\ (c \in DOMAIN ret /\ Len(jpg) >= 1 /\ ret[c] = Len(jpg))
         => wire[c] = Message(jpg)

C3_Witness ==
  \E c \in DOMAIN ret :
    /\ Len(wire[c]) > PrefixLen
    /\ Len(wire[c]) < Len(Message(jpg))
    /\ ret[c] < Len(jpg)

\* ---- C4 (as stated): when a framed write fails in a pass (and nothing but
\* the registry race has raised), the pass ends with every failed client out
\* of the registry, the loop still running, and every client that was
\* registered when the pass began attempted.
C4_FailureIsolated ==
  (OnlyRace /\ passEnd \in {"done", "aborted"} /\ \E c \in passStart : Failed(c)) =>
    /\ \A c \in passStart : Failed(c) => c \notin clients
    /\ passStart \subseteq DOMAIN ret
    /\ pc # "crashed"

\* ---- C5 (as stated): at the end of a pass no client that the pass removed
\* from the registry still has an open socket.
C5_EvictedClosed ==
  passEnd = "done" => \A c \in passStart : c \notin clients => ~SocketOpen(c)

\* ---- C6 (as stated): no iteration starts after a KeyboardInterrupt has been
\* delivered to the streaming thread.
C6_InterruptStops == ~startedAfterIntr

\* ---- C7 (as stated): once producing or encoding a frame has raised, the
\* loop starts no further iteration.
C7_FatalStops == [][("Exception" \in errors) => (iters' = iters)]_vars

\* ---- C8 (as stated): with a frame array of n frames and nothing but the
\* registry race raising, the i-th call of sendNextFrame broadcasts frame
\* (i-1) mod n, and between iterations currentFrame = i mod n.
C8_Wraparound ==
  (variant = "TCP" /\ OnlyRace) =>
    /\ \A i \in 1..Len(sentIdx) : sentIdx[i] = (i - 1) % frameCount
    /\ pc = "top" => currentFrame = Len(sentIdx) % frameCount

\* ---- C9 (as stated): whatever time an iteration took, when it is over (and
\* nothing but the registry race has raised) it has made one broadcast, of
\* the next frame in sequence, attempted to every client registered when the
\* broadcast began, and it has logged an overrun if it took longer than 1/fps.
C9_OverrunDegrades ==
  (OnlyRace /\ iters >= 1 /\ pc \in {"top", "crashed"}) =>
    /\ passEnd = "done"
    /\ passStart \subseteq DOMAIN ret
    /\ Len(sentIdx) = iters
    /\ variant = "TCP" => jpg = encodeJPEG((iters - 1) % frameCount)
    /\ elapsed > MsPerSecond \div fps => overrunLogged

\* ---- C10 (as stated): when the broadcast of the next frame begins, the
\* previous frame has been attempted to every client that was registered
\* when its pass began, accepts during that pass notwithstanding.
C10_StableSnapshot ==
  [][(pc = "produce" /\ passEnd' = "running" /\ OnlyRace) =>
       passStart \subseteq DOMAIN ret]_vars

C12_InvalidFpsAborts == iters >= 1 => fps > 0

\* ---- C13 (as stated): a client that stalls does not starve the others.
\* A write to a peer that never reads never returns, and while it does not
\* return the streaming thread takes no other step; so the others receive
\* the frame only if they had it already: whenever the thread is in such a
\* write (at a valid frame rate), every other client of the pass with a
\* healthy peer has the whole message of the frame being broadcast.
C13_NoStarvation ==
  (fps > 0 /\ Blocked) =>
    \A d \in passStart \ client :
      quotaStart[d] = NoLimit => wire[d] = Message(jpg)

\* ---- C14 (as stated): every socket accept() returns is put in the
\* registry; a client leaves the registry only when the framed write to it
\* has returned short; and every pass that ends (nothing but the registry
\* race having raised) has attempted the frame to every client that was
\* registered when it began.
C14_Subscribed ==
  [][/\ (accepted' \ accepted) \subseteq clients'
     /\ \A c \in clients \ clients' : Failed(c)
     /\ (passEnd = "running" /\ passEnd' # "running" /\ errors' \subseteq {"RuntimeError"})
          => passStart \subseteq DOMAIN ret']_vars

\* ---- C15: the passes whose frame was written to any one client are
\* strictly increasing in the order of the writes (none twice, none out of
\* order), and each is later than every pass that was over when the client
\* was registered.
C15_NoReplay ==
  \A c \in Sockets :
    /\ \A i \in 1..(Len(got[c]) - 1) : got[c][i] < got[c][i + 1]
    /\ \A i \in 1..Len(got[c]) : got[c][i] > regAt[c]

\* one client has been written two passes, another, registered after the
\* first pass, only the second
C15_Witness ==
  \E c, d \in clients :
    /\ Len(got[c]) = 2
    /\ regAt[d] >= 1 /\ Len(got[d]) = 1

\* what a receiver does with the bytes of one socket: read 4 bytes, take
\* them as a little-endian unsigned length, read that many bytes
FromBytes4LE(b) == b[1] + 256 * b[2] + 65536 * b[3] + 16777216 * b[4]
Decode(stream) == SubSeq(stream, PrefixLen + 1,
                         PrefixLen + FromBytes4LE(SubSeq(stream, 1, PrefixLen)))

\* ---- C16: when the framed write of a buffer B to a peer that takes every
\* byte has returned, however the sends were split, the bytes written are 4
\* bytes that read as len(B) in little-endian followed by B and nothing
\* else: the receiver recovers exactly B. The write returns len(B).
C16_RoundTrip ==
  \A c \in DOMAIN ret :
    /\ Len(wire[c]) = PrefixLen + Len(jpg)
    /\ \A k \in 1..PrefixLen : wire[c][k] \in 0..(ByteRange - 1)
    /\ FromBytes4LE(SubSeq(wire[c], 1, PrefixLen)) = Len(jpg)
    /\ Decode(wire[c]) = jpg
    /\ ret[c] = Len(jpg)

\* a buffer whose length needs the second byte of the prefix has been written
C16_Witness ==
  \E c \in DOMAIN ret : Len(jpg) > ByteRange /\ Decode(wire[c]) = jpg

\* ---- C17 (as stated): at 10 frames per second, when 100 iterations have
\* run and none has cost any measured time, the loop has taken at least 990
\* and less than 1200 milliseconds.
C17_PacingBound ==
  (pc = "top" /\ fps = 10 /\ work = 0 /\ iters = 100) =>
    (clock >= 990 /\ clock < 1200)

\* ---- C17 (amended): at 10 frames per second, iterations that cost no
\* measured time sleep 100 - 5 milliseconds each: after k of them the loop
\* has taken 95 * k milliseconds, 9500 after 100.
C17_PacedTotal ==
  (pc = "top" /\ fps = 10 /\ work = 0) => clock = 95 * iters

C17_Witness ==
  pc = "top" /\ fps = 10 /\ work = 0 /\ iters = 100 /\ clock = 9500

\* ---- C18 (as stated): the registry of a server constructed with
\* maxClients = m (and a valid frame rate) never holds more than m clients.
C18_MaxClients ==
  (variant = "TCP" /\ fps > 0) => Cardinality(clients) <= maxClients

Max0(x) == IF x > 0 THEN x ELSE 0

\* ---- C19: the pacing step of an iteration that measured elapsed time e
\* sleeps exactly max(0, 1/fps - e - 5 ms), and goes to sleep only for a
\* positive time; it logs an overrun whenever e exceeds 1/fps; and it never
\* both sleeps a positive time and logs an overrun.
C19_PacingRule ==
  [][(pc = "pace" /\ pc' \in {"sleep", "top"} /\ interrupts' = interrupts) =>
       /\ slept' = Max0(Period(fps) - elapsed' - 5)
       /\ (pc' = "sleep") = (slept' > 0)
       /\ elapsed' > Period(fps) => overrunLogged'
       /\ ~(slept' > 0 /\ overrunLogged')]_vars

\* an iteration at a positive rate took longer than 1/fps: logged, no sleep
C19_Witness ==
  pc = "top" /\ fps > 0 /\ elapsed > Period(fps) /\ overrunLogged /\ slept = 0

Min(a, b) == IF a < b THEN a ELSE b

\* ---- C20: no byte is written to a client before the constructor is over;
\* a clock server constructed with the calibration on has computed maxFPS;
\* when maxFPS has been computed, exactly 100 warm-up frames were rendered,
\* the effective rate is min(configured rate, maxFPS) and the clamp was
\* logged exactly when the configured rate exceeded maxFPS; without a
\* calibration the rate is the configured one.
C20_CalibrationClamp ==
  /\ pc \in Unbuilt => \A c \in Sockets : wire[c] = <<>> /\ got[c] = <<>>
  /\ (variant = "Clock" /\ runMAXFPSTest /\ pc \notin Unbuilt) => maxFPS # {}
  /\ \A m \in maxFPS :
       /\ warmups = 100
       /\ fps = Min(fpsArg, m)
       /\ clampLogged = (fpsArg > m)
  /\ maxFPS = {} => (fps = fpsArg /\ ~clampLogged)

\* the 100 frames took 20 s: 5 frames per second, under the 10 asked for
C20_Witness ==
  pc = "idle" /\ maxFPS = {5} /\ fpsArg = 10 /\ fps = 5 /\ clampLogged

\* ---- C21 (as stated): a failed accept() does not end the accept loop:
\* the accept thread of a constructed server is accepting, whatever has
\* happened to earlier connection attempts.
C21_AcceptorSurvives == acceptor = "accepting"

\* the loop method is over: it has returned, or an exception has left it
LoopOver == pc \in {"stopped", "crashed"}

\* ---- C22 (as stated): a loop that is over stays over: no step of the
\* same server object takes it from Stopped back into its while statement.
C22_StoppedIsTerminal == [][LoopOver => LoopOver']_vars

\* ---- C23 (as stated): a client whose framed write has returned short is
\* written to no more: when the next pass begins (nothing but the registry
\* race having raised) no client of the registry is one whose write
\* returned short in the pass before, accepts during that pass
\* notwithstanding.
C23_FailedNeverWritten ==
  [][(pc = "produce" /\ passEnd' = "running" /\ OnlyRace) =>
       \A c \in clients : ~Failed(c)]_vars

\* ---- C24 (as stated): for a payload of any length, the empty one
\* included, a framed write that has returned without having written the
\* whole message has returned less than the payload's length, and once its
\* pass is over the client is out of the registry.
C24_FailureDetected ==
  \A c \in DOMAIN ret :
    wire[c] # Message(jpg) =>
      /\ ret[c] < Len(jpg)
      /\ passEnd # "running" => c \notin clients

\* ---- C25: for a server built from an array of frameCount >= 1 frames,
\* whatever methods are called in whatever order, with accepts in between:
\* 0 <= currentFrame < frameCount after every step; setCurrentFrame(x)
\* leaves currentFrame at x when 0 <= x < frameCount and unchanged
\* otherwise; no step of sendJPEGToAllClients or
\* encodeAndSendJPEGToAllClients changes currentFrame; and frameCount
\* never changes.
C25_IndexInRange ==
  [][/\ 0 <= currentFrame' /\ currentFrame' < frameCount'
     /\ frameCount' = frameCount
     /\ call'[1] = "setCurrentFrame" =>
          currentFrame' = IF 0 <= call'[2] /\ call'[2] < frameCount
                            THEN call'[2] ELSE currentFrame
     /\ call'[1] \in PushCalls => currentFrame' = currentFrame]_vars

\* the index stands at the last frame of a two-frame array after a call of
\* sendNextFrame, and setCurrentFrame(2) has just been refused
C25_Witness ==
  /\ frameCount = 2 /\ currentFrame = 1 /\ Len(sentIdx) >= 1
  /\ call = <<"setCurrentFrame", 2>>

====
